---- MODULE Spec2Model ----
(***************************************************************************)
(* dockerns: the routing registry (package accounts), its change watcher   *)
(* and the start-up sequence of main.                                      *)
(*                                                                         *)
(* Strings are sequences of one-character strings, so that SplitN,         *)
(* LastIndex, slicing and regular-expression matching are computed the way *)
(* the Go code computes them.                                              *)
(***************************************************************************)
EXTENDS Integers, Sequences, FiniteSets, TLC

(***************************************************************************)
(* Bounds of the model.                                                    *)
(***************************************************************************)
\* longest host string handed to ReplaceHost
MaxHostLen == 3
\* longest route list handed to ReplaceHost
MaxRoutes == 2
\* most leaves the configuration store holds while the registry runs
MaxLeaves == 2
\* most leaves the store holds while main, Watch and the stream readers run
SysMaxLeaves == 1
\* most change events a stream holds that its reader has not yet taken
MaxPending == 1
\* ticks of the clock in the one second of time.Second
TicksPerSecond == 2
\* the history counters of a burst stop counting here
MaxCount == 2
\* most snapshot objects alive at once (published, being built, held by readers)
MaxObjs == 3
\* most leaves of a configuration tree handed to the table builder
MaxBuildLeaves == 3

(***************************************************************************)
(* strings                                                                 *)
(***************************************************************************)
\* strings.Index(s, c) for a one-character c, 1-based; 0 when c is absent
Index(s, c) ==
    IF \E i \in 1..Len(s) : s[i] = c
    THEN CHOOSE i \in 1..Len(s) : s[i] = c /\ \A j \in 1..(i - 1) : s[j] # c
    ELSE 0

\* strings.LastIndex(s, c), 1-based; 0 when c is absent
LastIndex(s, c) ==
    IF \E i \in 1..Len(s) : s[i] = c
    THEN CHOOSE i \in 1..Len(s) : s[i] = c /\ \A j \in (i + 1)..Len(s) : s[j] # c
    ELSE 0

\* strings.SplitN(s, c, 2): one part when c is absent, else the text before
\* the first c and everything after it
SplitN2(s, c) ==
    LET i == Index(s, c)
    IN  IF i = 0 THEN <<s>>
        ELSE <<SubSeq(s, 1, i - 1), SubSeq(s, i + 1, Len(s))>>

\* all strings over alphabet A of length at most n
StringsUpTo(A, n) == UNION {[1..k -> A] : k \in 0..n}

(***************************************************************************)
(* regexp: the fragment of the syntax the configuration values use.        *)
(* A pattern is a concatenation of atoms: a literal character, "." (any    *)
(* character), "^" (start of text), "$" (end of text).  "(" opens a group  *)
(* that is never closed, which regexp.Compile rejects.                     *)
(***************************************************************************)
\* regexp.Compile: ok = FALSE is the error return
Compile(src) ==
    IF \E i \in 1..Len(src) : src[i] = "("
    THEN [ok |-> FALSE, re |-> <<>>]
    ELSE [ok |-> TRUE, re |-> src]

\* whether the atoms re[k..] match s starting at position pos
RECURSIVE MatchAt(_, _, _, _)
MatchAt(re, k, s, pos) ==
    IF k > Len(re) THEN TRUE
    ELSE CASE re[k] = "^" -> pos = 1 /\ MatchAt(re, k + 1, s, pos)
           [] re[k] = "$" -> pos = Len(s) + 1 /\ MatchAt(re, k + 1, s, pos)
           [] re[k] = "." -> pos <= Len(s) /\ MatchAt(re, k + 1, s, pos + 1)
           [] OTHER -> pos <= Len(s) /\ s[pos] = re[k]
                       /\ MatchAt(re, k + 1, s, pos + 1)

\* (*Regexp).MatchString: an unanchored search
MatchString(re, s) == \E pos \in 1..(Len(s) + 1) : MatchAt(re, 1, s, pos)

(***************************************************************************)
(* Routes                                                                  *)
(***************************************************************************)
\* the first route of r whose pattern matches hostname; 0 when none does
FirstMatch(r, hostname) ==
    IF \E i \in 1..Len(r) : MatchString(r[i].Regexp, hostname)
    THEN CHOOSE i \in 1..Len(r) :
            /\ MatchString(r[i].Regexp, hostname)
            /\ \A j \in 1..(i - 1) : ~MatchString(r[j].Regexp, hostname)
    ELSE 0

\* mutant: the pattern is matched against the whole host, port included
ReplaceHostWholeHost(r, host) ==
    LET parts == SplitN2(host, ":")
        hasPort == Len(parts) = 2 /\ parts[2] # <<>>
        i == FirstMatch(r, host)
    IN  IF i = 0 THEN host
        ELSE IF hasPort THEN r[i].Host \o <<":">> \o parts[2]
        ELSE r[i].Host

\* mutant: the port is dropped from the rewritten host
ReplaceHostDropPort(r, host) ==
    LET parts == SplitN2(host, ":")
        i == FirstMatch(r, parts[1])
    IN  IF i = 0 THEN host ELSE r[i].Host

\* Routes.ReplaceHost
ReplaceHost(r, host) ==
    LET parts == SplitN2(host, ":")
        hostname == parts[1]
        hasPort == Len(parts) = 2 /\ parts[2] # <<>>
        i == FirstMatch(r, hostname)
    IN  IF i = 0 THEN host
        ELSE IF hasPort THEN r[i].Host \o <<":">> \o parts[2]
        ELSE r[i].Host

\* Routes.Less
Less(r, i, j) == r[i].Priority < r[j].Priority

\* the order Account.Routes is documented to be in: priority descending
SortedDesc(r) == \A i \in 1..(Len(r) - 1) : r[i].Priority >= r[i + 1].Priority

(***************************************************************************)
(* The configuration tree and the container inventory                      *)
(***************************************************************************)
\* the -routes flag (main.go:84), abbreviated from "/proxy"
EtcdRoot == <<"/", "p">>

\* const SUFFIX = ".container"
SUFFIX == <<".", "c", "o", "n", "t", "a", "i", "n", "e", "r">>

\* a map with no entries (make(map[...]) or a nil map)
EmptyMap == <<>>

\* every sequence that lists the elements of the finite set S once
Orderings(S) ==
    {f \in [1..Cardinality(S) -> S] : \A i, j \in 1..Cardinality(S) : f[i] = f[j] => i = j}

\* s[i:] of Go, for 0-based i
SliceFrom(s, i) == SubSeq(s, i + 1, Len(s))

\* key[strings.LastIndex(key, "/")+1:]
BaseName(key) == SliceFrom(key, LastIndex(key, "/"))

Digits == {"0", "1", "2", "3", "4", "5", "6", "7", "8", "9"}

DigitValue(c) ==
    CASE c = "0" -> 0 [] c = "1" -> 1 [] c = "2" -> 2 [] c = "3" -> 3 [] c = "4" -> 4
      [] c = "5" -> 5 [] c = "6" -> 6 [] c = "7" -> 7 [] c = "8" -> 8 [] c = "9" -> 9

RECURSIVE DecimalValue(_)
DecimalValue(s) ==
    IF s = <<>> THEN 0
    ELSE 10 * DecimalValue(SubSeq(s, 1, Len(s) - 1)) + DigitValue(s[Len(s)])

\* strconv.Atoi: an optional sign and at least one digit, nothing else
Atoi(s) ==
    LET signed == s # <<>> /\ s[1] \in {"+", "-"}
        body == IF signed THEN Tail(s) ELSE s
    IN  IF body = <<>> \/ \E i \in 1..Len(body) : body[i] \notin Digits
        THEN [ok |-> FALSE, n |-> 0]
        ELSE [ok |-> TRUE,
              n |-> IF signed /\ s[1] = "-" THEN 0 - DecimalValue(body)
                    ELSE DecimalValue(body)]

\* the containers of the runtime, in the order co of GET /containers/json:
\* the map getContainers builds, or a panic when a Name is empty (Name[1:])
RECURSIVE getContainers(_, _)
getContainers(co, m) ==
    IF co = <<>> THEN [panic |-> FALSE, m |-> m]
    ELSE LET item == Head(co)
         IN  IF item.Name = <<>> THEN [panic |-> TRUE, m |-> m]
             ELSE LET c == [Name |-> SliceFrom(item.Name, 1), IPAddress |-> item.IP]
                      keys == {c.Name} \cup item.Names
                  IN  getContainers(Tail(co),
                        [k \in (DOMAIN m) \cup keys |-> IF k \in keys THEN c ELSE m[k]])

\* the Key of a child node in the store
ChildKey(parent, name) == parent \o <<"/">> \o name

\* the destinations of the leaves la, in the order they first appear
RECURSIVE DestsOf(_)
DestsOf(la) ==
    IF la = <<>> THEN <<>>
    ELSE LET rest == DestsOf(SubSeq(la, 1, Len(la) - 1))
             d == la[Len(la)].dest
         IN  IF \E i \in 1..Len(rest) : rest[i] = d THEN rest ELSE Append(rest, d)

\* r.Node.Nodes of etcdClient.Get(root, false, true): the store e read with its
\* leaves listed in the order ord (the store does not sort its answer)
TreeRead(e, ord) ==
    LET acctSeq == CHOOSE q \in Orderings(e.accounts) : TRUE
        ANode(a) ==
            LET ofAcct(l) == l.acct = a
                la == SelectSeq(ord, ofAcct)
                ds == DestsOf(la)
                ToNode(d) ==
                    LET ofDest(l) == l.dest = d
                        ld == SelectSeq(la, ofDest)
                        key == ChildKey(ChildKey(EtcdRoot, a), d)
                    IN  [Key |-> key,
                         Nodes |-> [i \in 1..Len(ld) |->
                                      [Key |-> ChildKey(key, ld[i].key),
                                       Value |-> ld[i].value]]]
            IN  [Key |-> ChildKey(EtcdRoot, a),
                 Nodes |-> [i \in 1..Len(ds) |-> ToNode(ds[i])]]
    IN  [i \in 1..Len(acctSeq) |-> ANode(acctSeq[i])]

(***************************************************************************)
(* Reload: the table builder                                               *)
(***************************************************************************)
\* mutant: a priority that is no integer counts as 0 and the leaf is kept
LeafRouteLenient(reNode, host) ==
    LET s == SplitN2(BaseName(reNode.Key), ".")
        pr == IF Len(s) < 2 THEN [ok |-> TRUE, n |-> 0] ELSE Atoi(s[1])
        re == Compile(reNode.Value)
    IN  IF ~re.ok THEN <<>>
        ELSE <<[Name |-> s[Len(s)], Priority |-> pr.n, Host |-> host, Regexp |-> re.re]>>

\* lines 275-308: the route of one leaf, <<>> when the leaf is skipped
LeafRoute(reNode, host) ==
    LET s == SplitN2(BaseName(reNode.Key), ".")
        pr == IF Len(s) < 2 THEN [ok |-> TRUE, n |-> 0] ELSE Atoi(s[1])
        re == Compile(reNode.Value)
    IN  IF ~pr.ok THEN <<>>
        ELSE IF ~re.ok THEN <<>>
        ELSE <<[Name |-> s[Len(s)], Priority |-> pr.n, Host |-> host, Regexp |-> re.re]>>

RECURSIVE LeafRoutes(_, _)
LeafRoutes(reNodes, host) ==
    IF reNodes = <<>> THEN <<>>
    ELSE LeafRoute(Head(reNodes), host) \o LeafRoutes(Tail(reNodes), host)

\* mutant: a container that is not found is connected to by its key text
DestRoutesUnresolved(toNode, addr, containers) ==
    LET host == BaseName(toNode.Key)
        isContainer ==
            /\ Len(host) > Len(SUFFIX)
            /\ SliceFrom(host, Len(host) - Len(SUFFIX)) = SUFFIX
        containerName == SubSeq(host, 1, Len(host) - Len(SUFFIX))
    IN  IF isContainer /\ addr # <<>> /\ containerName \in DOMAIN containers
        THEN LeafRoutes(toNode.Nodes, containers[containerName].IPAddress)
        ELSE LeafRoutes(toNode.Nodes, host)

\* lines 246-310: the routes of one destination node
DestRoutes(toNode, addr, containers) ==
    LET host == BaseName(toNode.Key)
        isContainer ==
            /\ Len(host) > Len(SUFFIX)
            /\ SliceFrom(host, Len(host) - Len(SUFFIX)) = SUFFIX
        containerName == SubSeq(host, 1, Len(host) - Len(SUFFIX))
    IN  IF isContainer
        THEN IF addr = <<>> THEN <<>>
             ELSE IF containerName \notin DOMAIN containers THEN <<>>
             ELSE LeafRoutes(toNode.Nodes, containers[containerName].IPAddress)
        ELSE LeafRoutes(toNode.Nodes, host)

RECURSIVE AccountRoutes(_, _, _)
AccountRoutes(toNodes, addr, containers) ==
    IF toNodes = <<>> THEN <<>>
    ELSE DestRoutes(Head(toNodes), addr, containers)
            \o AccountRoutes(Tail(toNodes), addr, containers)

\* the rearrangements of r
Rearrangements(r) ==
    {[i \in 1..Len(r) |-> r[p[i]]] : p \in Orderings(1..Len(r))}

\* mutant: sort.Sort(account.Routes), the Reverse forgotten
SortAscending(r) ==
    {q \in Rearrangements(r) : \A i \in 1..(Len(q) - 1) : ~Less(q, i + 1, i)}

\* mutant: the routes are left in discovery order
SortOmitted(r) == {r}

\* sort.Sort(sort.Reverse(account.Routes)): the results sort.Sort may leave,
\* every rearrangement in which no element is Less than its successor under
\* the reversed order (sort.Sort is not stable)
SortReverse(r) ==
    {q \in Rearrangements(r) : \A i \in 1..(Len(q) - 1) : ~Less(q, i, i + 1)}

\* mutant: an account that ends with no route is not entered in the map
BuildsSkippingEmpty(nodes, addr, containers) ==
    LET names == {BaseName(nodes[i].Key) : i \in 1..Len(nodes)}
        NodeOf(n) == nodes[CHOOSE i \in 1..Len(nodes) : BaseName(nodes[i].Key) = n]
        full == {n \in names : AccountRoutes(NodeOf(n).Nodes, addr, containers) # <<>>}
        Choices(n) ==
            {[Name |-> n, Routes |-> q] :
                q \in SortReverse(AccountRoutes(NodeOf(n).Nodes, addr, containers))}
    IN  {f \in [full -> UNION {Choices(n) : n \in full}] :
            \A n \in full : f[n] \in Choices(n)}

\* lines 241-314: the maps Reload can build from the tree it read
Builds(nodes, addr, containers) ==
    LET names == {BaseName(nodes[i].Key) : i \in 1..Len(nodes)}
        NodeOf(n) == nodes[CHOOSE i \in 1..Len(nodes) : BaseName(nodes[i].Key) = n]
        Choices(n) ==
            {[Name |-> n, Routes |-> q] :
                q \in SortReverse(AccountRoutes(NodeOf(n).Nodes, addr, containers))}
    IN  {f \in [names -> UNION {Choices(n) : n \in names}] :
            \A n \in names : f[n] \in Choices(n)}

(***************************************************************************)
(* Inputs of the route matcher                                             *)
(***************************************************************************)
HostChars == {"a", "b", ":"}
Hosts == StringsUpTo(HostChars, MaxHostLen)
PatternSources == {<<".">>, <<"a">>, <<"^", "a", "$">>, <<"b">>, <<"^", "$">>}
RouteHosts == {<<"x">>, <<"a">>}
MatcherRoutes ==
    [Name : {<<"r">>}, Priority : {0, 5}, Host : RouteHosts,
     Regexp : {Compile(p).re : p \in PatternSources}]
RouteLists == {r \in StringsUpTo(MatcherRoutes, MaxRoutes) : SortedDesc(r)}

VARIABLES
    rhRoutes,    \* the receiver of a ReplaceHost call
    rhHost,      \* its argument
    rhResult,    \* its result: <<>> before the call, <<value>> after it
    dockerAddr,  \* Accounts.DockerAddr: <<>> when the runtime is not configured
    etcd,        \* the configuration store: root, account directories, leaves
    docker,      \* the containers the runtime is running
    heap,        \* the storage allocated by New and by each Reload: its map
                 \* and the route arrays of the accounts in it
    pub,         \* history: who published each object, and its content then
    accountsRef, \* Accounts.accounts: the object readers are handed
    rl,          \* the activation of Reload of each caller
    panicked,    \* the process died of a runtime panic
    started,     \* main has started the transport adapters
    cl,          \* one connection of a transport adapter
    main,        \* the goroutine of main that loads the table and starts the rest
    watch,       \* the goroutine of Accounts.Watch, and its timer channel t:
                 \* -1 nil or already received from, 0 fired, k > 0 ticks to go
    etcdW,       \* the goroutine of watchEtcdEvent
    dockerW,     \* the goroutine of watchDockerEvent
    gh,          \* history kept for the claims
    rq           \* the flags of the process and one request to an adapter

matcherVars == <<rhRoutes, rhHost, rhResult, rq>>
upstreamVars == <<dockerAddr, etcd, docker>>
registryVars == <<heap, pub, accountsRef>>
sysVars == <<main, watch, etcdW, dockerW, gh>>
vars == <<rhRoutes, rhHost, rhResult, dockerAddr, etcd, docker, heap, pub,
          accountsRef, rl, panicked, started, cl, main, watch, etcdW, dockerW, gh, rq>>

(***************************************************************************)
(* The registry: New, Reload, get, Get                                     *)
(***************************************************************************)
Callers == {"main", "watch"}
ObjIds == 1..MaxObjs

\* etcd error code 100 (key not found), accounts.go:231
EcodeKeyNotFound == 100
\* any other failure of the request
EcodeOther == 0

NoRoot == [root |-> FALSE, accounts |-> {}, leaves |-> {}]
FreeObj == [live |-> FALSE, tbl |-> EmptyMap]
NotPublished == [by |-> "none", tbl |-> EmptyMap]
IdleReload ==
    [pc |-> "idle", containers |-> EmptyMap, accounts |-> 0, err |-> "",
     pre |-> EmptyMap, absent |-> FALSE, fetched |-> FALSE, answer |-> "",
     nodes |-> <<>>]
NoHistory ==
    [sinceToken |-> TicksPerSecond, burstTokens |-> 0, burstReloads |-> 0,
     lastFail |-> [c \in Callers |-> FALSE], slept |-> 0, reest |-> "no"]
\* no flag given (main.go:79-81) and no request yet
NoRequest ==
    [account |-> <<>>, password |-> <<>>, reverse |-> FALSE,
     stage |-> "idle", adapter |-> "", method |-> "", user |-> <<>>, pass |-> <<>>,
     host |-> <<>>, data |-> <<>>, getNil |-> FALSE, out |-> [kind |-> "", to |-> <<>>]]
IdleConn == [pc |-> "idle", map |-> 0, name |-> <<>>, seen |-> <<>>, newHost |-> <<>>]

\* accounts.New, and the process before main's goroutine runs
InitRegistry ==
    /\ heap = [i \in ObjIds |-> IF i = 1 THEN [live |-> TRUE, tbl |-> EmptyMap] ELSE FreeObj]
    /\ pub = [i \in ObjIds |-> IF i = 1 THEN [by |-> "New", tbl |-> EmptyMap]
                                ELSE NotPublished]
    /\ accountsRef = 1
    /\ rl = [c \in Callers |-> IdleReload]
    /\ panicked = FALSE
    /\ started = FALSE
    /\ cl = IdleConn
    /\ main = [pc |-> "start", sleep |-> 0]
    /\ watch = [pc |-> "off", t |-> -1]
    /\ etcdW = [pc |-> "off", pending |-> 0]
    /\ dockerW = [pc |-> "off", buf |-> 0, sleep |-> 0]
    /\ gh = NoHistory

\* the table readers are handed now
Snapshot == heap[accountsRef].tbl

\* the objects still referenced once the registry holds ref, the Reloads rlv
\* and the connection clv
Referenced(ref, rlv, clv) ==
    ({ref} \cup {rlv[c].accounts : c \in Callers} \cup {clv.map}) \ {0}

\* the garbage collector: storage nothing references is gone
Sweep(h, keep) == [i \in ObjIds |-> IF i \in keep THEN h[i] ELSE FreeObj]
SweepPub(q, keep) == [i \in ObjIds |-> IF i \in keep THEN q[i] ELSE NotPublished]

\* mutant: Reload fills the map the registry already holds
MakeInPlace(h, ref) == ref

\* accounts := make(map[string]Account): fresh storage
Make(h, ref) == CHOOSE i \in ObjIds : ~h[i].live /\ \A j \in 1..(i - 1) : h[j].live

\* Reload is entered by caller c
ReloadEnter(c) ==
    rl' = [rl EXCEPT ![c] = [IdleReload EXCEPT !.pc = "docker", !.pre = Snapshot,
                                              !.absent = ~etcd.root]]

\* mutant: a failing Reload empties the table before it returns the error
ReturnErrorClearing(c, from, ans) ==
    /\ rl' = [rl EXCEPT ![c].pc = "ret", ![c].err = from, ![c].answer = ans]
    /\ heap' = [heap EXCEPT ![accountsRef].tbl = EmptyMap]
    /\ UNCHANGED <<pub, accountsRef>>

\* return err (lines 221 and 238)
ReturnError(c, from, ans) ==
    /\ rl' = [rl EXCEPT ![c].pc = "ret", ![c].err = from, ![c].answer = ans]
    /\ UNCHANGED <<heap, pub, accountsRef>>

\* lines 216-223: the container inventory
ReloadDocker(c) ==
    /\ ~panicked
    /\ rl[c].pc = "docker"
    /\ IF dockerAddr = <<>>
       THEN /\ rl' = [rl EXCEPT ![c].pc = "etcd"]
            /\ UNCHANGED <<registryVars, panicked>>
       ELSE \/ ReturnError(c, "docker", "") /\ UNCHANGED panicked
            \/ \E co \in Orderings(docker) :
                 LET g == getContainers(co, EmptyMap)
                 IN  IF g.panic
                     THEN panicked' = TRUE /\ UNCHANGED <<registryVars, rl>>
                     ELSE /\ rl' = [rl EXCEPT ![c].pc = "etcd", ![c].containers = g.m,
                                              ![c].fetched = TRUE]
                          /\ UNCHANGED <<registryVars, panicked>>
    /\ UNCHANGED <<matcherVars, upstreamVars, started, cl, sysVars>>

\* mutant: the error code is compared with the wrong number
IsKeyNotFoundWrongCode(code) == code = 404

\* etcderr.ErrorCode == 100
IsKeyNotFound(code) == code = EcodeKeyNotFound

\* the answers etcdClient.Get(a.EtcdRoot, false, true) can give
EtcdGet(e) ==
    {[err |-> TRUE, code |-> EcodeOther, nodes |-> <<>>]}
    \cup (IF e.root
          THEN {[err |-> FALSE, code |-> 0, nodes |-> TreeRead(e, ord)] :
                    ord \in Orderings(e.leaves)}
          ELSE {[err |-> TRUE, code |-> EcodeKeyNotFound, nodes |-> <<>>]})

\* history: what the store answered
Answer(r) == IF ~r.err THEN "tree" ELSE IF r.code = EcodeKeyNotFound THEN "absent" ELSE "fail"

\* lines 228-314: the read of the store and the build of the new map
ReloadEtcd(c) ==
    /\ ~panicked
    /\ rl[c].pc = "etcd"
    /\ \E r \in EtcdGet(etcd) :
         IF r.err /\ ~IsKeyNotFound(r.code)
         THEN ReturnError(c, "etcd", Answer(r))
         ELSE \E tbl \in (IF r.err THEN {EmptyMap}
                          ELSE Builds(r.nodes, dockerAddr, rl[c].containers)) :
                LET new == Make(heap, accountsRef)
                IN  /\ heap' = [heap EXCEPT ![new] = [live |-> TRUE, tbl |-> tbl]]
                    /\ pub' = IF new = accountsRef THEN pub
                              ELSE [pub EXCEPT ![new] = NotPublished]
                    /\ rl' = [rl EXCEPT ![c].pc = "publish", ![c].accounts = new,
                                        ![c].answer = Answer(r),
                                        ![c].nodes = r.nodes]
                    /\ UNCHANGED accountsRef
    /\ UNCHANGED <<matcherVars, upstreamVars, panicked, started, cl, sysVars>>

\* lines 233-236 and 320-324: a.accounts = accounts under the mutex, return nil
ReloadPublish(c) ==
    /\ ~panicked
    /\ rl[c].pc = "publish"
    /\ LET new == rl[c].accounts
           rlv == [rl EXCEPT ![c].pc = "ret", ![c].accounts = 0, ![c].nodes = <<>>]
           keep == Referenced(new, rlv, cl)
       IN  /\ accountsRef' = new
           /\ rl' = rlv
           /\ heap' = Sweep(heap, keep)
           /\ pub' = SweepPub([pub EXCEPT ![new] = [by |-> "Reload", tbl |-> heap[new].tbl]],
                              keep)
    /\ UNCHANGED <<matcherVars, upstreamVars, panicked, started, cl, sysVars>>

(***************************************************************************)
(* A connection of a transport adapter: Get, then ReplaceHost on the view  *)
(* it keeps (SOCKS stores the account in c.Data at authentication)         *)
(***************************************************************************)
ConnNames == {<<"m">>, <<"u">>}
ConnHosts == {<<"a", ":", "b">>}

\* Accounts.get: the current map, read under the mutex
ConnGetMap ==
    /\ ~panicked
    /\ started
    /\ cl.pc = "idle"
    /\ cl' = [IdleConn EXCEPT !.pc = "lookup", !.map = accountsRef]
    /\ UNCHANGED <<matcherVars, upstreamVars, registryVars, rl, panicked, started, sysVars>>

\* Accounts.Get: the lookup in the map get returned; nil fails the request
ConnLookup(n) ==
    /\ ~panicked
    /\ cl.pc = "lookup"
    /\ IF n \in DOMAIN heap[cl.map].tbl
       THEN /\ cl' = [cl EXCEPT !.pc = "held", !.name = n,
                                !.seen = heap[cl.map].tbl[n].Routes]
            /\ UNCHANGED <<heap, pub>>
       ELSE /\ cl' = IdleConn
            /\ heap' = Sweep(heap, Referenced(accountsRef, rl, IdleConn))
            /\ pub' = SweepPub(pub, Referenced(accountsRef, rl, IdleConn))
    /\ UNCHANGED <<matcherVars, upstreamVars, accountsRef, rl, panicked, started, sysVars>>

\* SOCKS.proxySOCKSConnect: account.Routes.ReplaceHost(host) on the kept view
ConnReplaceHost(h) ==
    /\ ~panicked
    /\ cl.pc = "held"
    /\ cl' = [cl EXCEPT !.pc = "connected",
                        !.newHost = ReplaceHost(heap[cl.map].tbl[cl.name].Routes, h)]
    /\ UNCHANGED <<matcherVars, upstreamVars, registryVars, rl, panicked, started, sysVars>>

\* the connection ends and drops its view
ConnClose ==
    /\ ~panicked
    /\ cl.pc \in {"held", "connected"}
    /\ cl' = IdleConn
    /\ heap' = Sweep(heap, Referenced(accountsRef, rl, IdleConn))
    /\ pub' = SweepPub(pub, Referenced(accountsRef, rl, IdleConn))
    /\ UNCHANGED <<matcherVars, upstreamVars, accountsRef, rl, panicked, started, sysVars>>

(***************************************************************************)
(* The upstreams change                                                    *)
(***************************************************************************)
CONTAINER_C == <<"c">> \o SUFFIX
Leaf(a, d, k, v) == [acct |-> a, dest |-> d, key |-> k, value |-> v]
PutLeaves ==
    {Leaf(<<"m">>, <<"x">>, <<"5", ".", "a">>, <<".">>),
     Leaf(<<"m">>, <<"x">>, <<"b">>, <<".">>),
     Leaf(<<"m">>, CONTAINER_C, <<"b">>, <<"a">>)}
Containers ==
    {[ID |-> <<"1">>, Name |-> <<"/", "c">>, Names |-> {<<"/", "c">>}, IP |-> <<"i">>]}

\* a change of the store is one more event for an established watch; the
\* store keeps it until the watch asks for it
EtcdChanged ==
    /\ etcdW.pc \in {"watching", "send"} => etcdW.pending < MaxPending
    /\ etcdW' = IF etcdW.pc \in {"watching", "send"}
                THEN [etcdW EXCEPT !.pending = @ + 1] ELSE etcdW
    /\ UNCHANGED <<main, watch, dockerW, gh>>

\* a start or stop is one more JSON object on an open GET /events stream
DockerChanged ==
    /\ dockerW.pc \in {"decode", "send"} => dockerW.buf < MaxPending
    /\ dockerW' = IF dockerW.pc \in {"decode", "send"}
                  THEN [dockerW EXCEPT !.buf = @ + 1] ELSE dockerW
    /\ UNCHANGED <<main, watch, etcdW, gh>>

SamePath(l, k) == l.acct = k.acct /\ l.dest = k.dest /\ l.key = k.key

\* a Reload in flight no longer sees the root absent for the whole call
RootSeen(rlv) == [c \in Callers |-> [rlv[c] EXCEPT !.absent = FALSE]]

\* PUT <root>/<acct>/<dest>/<key> value=<value>
EtcdPut(l, max) ==
    LET leaves == {k \in etcd.leaves : ~SamePath(l, k)} \cup {l}
    IN  /\ l \notin etcd.leaves
        /\ Cardinality(leaves) <= max
        /\ etcd' = [root |-> TRUE, accounts |-> etcd.accounts \cup {l.acct},
                    leaves |-> leaves]
        /\ rl' = RootSeen(rl)
        /\ EtcdChanged
        /\ UNCHANGED <<matcherVars, dockerAddr, docker, registryVars, panicked, started, cl>>

\* DELETE of one leaf; its directories stay
EtcdDelete(l) ==
    /\ l \in etcd.leaves
    /\ etcd' = [etcd EXCEPT !.leaves = @ \ {l}]
    /\ EtcdChanged
    /\ UNCHANGED <<matcherVars, dockerAddr, docker, registryVars, rl, panicked, started, cl>>

\* DELETE <root>?recursive=true
EtcdDeleteRoot ==
    /\ etcd.root
    /\ etcd' = NoRoot
    /\ EtcdChanged
    /\ UNCHANGED <<matcherVars, dockerAddr, docker, registryVars, rl, panicked, started, cl>>

\* a container starts
DockerStart(k) ==
    /\ k \notin docker
    /\ docker' = docker \cup {k}
    /\ DockerChanged
    /\ UNCHANGED <<matcherVars, dockerAddr, etcd, registryVars, rl, panicked, started, cl>>

\* a container stops
DockerStop(k) ==
    /\ k \in docker
    /\ docker' = docker \ {k}
    /\ DockerChanged
    /\ UNCHANGED <<matcherVars, dockerAddr, etcd, registryVars, rl, panicked, started, cl>>

(***************************************************************************)
(* SpecReload: Reload called again and again by one caller at a time,      *)
(* while the upstreams change and a connection reads the registry          *)
(***************************************************************************)
InitReload ==
    /\ rhRoutes = <<>>
    /\ rhHost = <<>>
    /\ rhResult = <<>>
    /\ rq = NoRequest
    /\ dockerAddr \in {<<>>, <<"d">>}
    /\ etcd = NoRoot
    /\ docker = {}
    /\ InitRegistry

\* Reload is called: by main's retry loop until it first succeeds, by Watch
\* from then on; calls do not overlap
CallReload(c) ==
    /\ ~panicked
    /\ c = (IF started THEN "watch" ELSE "main")
    /\ \A d \in Callers : rl[d].pc = "idle"
    /\ ReloadEnter(c)
    /\ UNCHANGED <<matcherVars, upstreamVars, registryVars, panicked, started, cl, sysVars>>

\* Reload has returned to its caller; the first success starts the adapters
ReloadReturned(c) ==
    /\ ~panicked
    /\ rl[c].pc = "ret"
    /\ rl' = [rl EXCEPT ![c] = IdleReload]
    /\ started' = (started \/ rl[c].err = "")
    /\ UNCHANGED <<matcherVars, upstreamVars, registryVars, panicked, cl, sysVars>>

NextReload ==
    \/ \E c \in Callers : CallReload(c)
    \/ \E c \in Callers : ReloadDocker(c)
    \/ \E c \in Callers : ReloadEtcd(c)
    \/ \E c \in Callers : ReloadPublish(c)
    \/ \E c \in Callers : ReloadReturned(c)
    \/ ConnGetMap
    \/ \E n \in ConnNames : ConnLookup(n)
    \/ \E h \in ConnHosts : ConnReplaceHost(h)
    \/ ConnClose
    \/ \E l \in PutLeaves : EtcdPut(l, MaxLeaves)
    \/ \E l \in PutLeaves : EtcdDelete(l)
    \/ EtcdDeleteRoot
    \/ \E k \in Containers : DockerStart(k)
    \/ \E k \in Containers : DockerStop(k)

SpecReload == InitReload /\ [][NextReload]_vars

(***************************************************************************)
(* SpecBuild: Reload called on every configuration tree and every answer   *)
(* of the container runtime, neither changing while it runs                *)
(***************************************************************************)
GHOST_G == <<"g">> \o SUFFIX

\* leaves that are well formed, one with a priority that is no integer, one
\* with a pattern that does not compile, under a host, under a container the
\* runtime may run, under a container it never runs, and under the
\* destination key that is the suffix alone
BuildLeaves ==
    {Leaf(<<"m">>, <<"x">>, <<"5", ".", "a">>, <<".">>),
     Leaf(<<"m">>, <<"x">>, <<"5", ".", "b">>, <<"a">>),
     Leaf(<<"m">>, <<"x">>, <<"b">>, <<".">>),
     Leaf(<<"m">>, <<"x">>, <<"x", ".", "a">>, <<".">>),
     Leaf(<<"m">>, <<"x">>, <<"5", ".", "c">>, <<"(">>),
     Leaf(<<"m">>, CONTAINER_C, <<"5", ".", "a">>, <<"b">>),
     Leaf(<<"m">>, CONTAINER_C, <<"b">>, <<".">>),
     Leaf(<<"m">>, GHOST_G, <<"5", ".", "a">>, <<".">>),
     Leaf(<<"m">>, SUFFIX, <<"5", ".", "a">>, <<".">>)}

\* the answers of GET /containers/<id>/json: a container named c, and one
\* whose Name is the empty string
BuildContainers ==
    Containers \cup
    {[ID |-> <<"2">>, Name |-> <<>>, Names |-> {<<"/", "e">>}, IP |-> <<"j">>]}

BuildTrees ==
    {NoRoot} \cup
    {[root |-> TRUE, accounts |-> {l.acct : l \in ls}, leaves |-> ls] :
        ls \in {t \in SUBSET BuildLeaves : Cardinality(t) <= MaxBuildLeaves}}

InitBuild ==
    /\ rhRoutes = <<>>
    /\ rhHost = <<>>
    /\ rhResult = <<>>
    /\ rq = NoRequest
    /\ dockerAddr \in {<<>>, <<"d">>}
    /\ etcd \in BuildTrees
    /\ docker \in SUBSET BuildContainers
    /\ InitRegistry

NextBuild ==
    \/ \E c \in Callers : CallReload(c)
    \/ \E c \in Callers : ReloadDocker(c)
    \/ \E c \in Callers : ReloadEtcd(c)
    \/ \E c \in Callers : ReloadPublish(c)
    \/ \E c \in Callers : ReloadReturned(c)

SpecBuild == InitBuild /\ [][NextBuild]_vars

(***************************************************************************)
(* The transport adapters.  A result is what the adapter hands back to its *)
(* library: a failure response of the protocol, or the host the library    *)
(* connects to next.                                                       *)
(***************************************************************************)
\* Accounts.Get on the published table: <<>> is nil
Get(name) == IF name \in DOMAIN Snapshot THEN <<Snapshot[name]>> ELSE <<>>

\* HTTP.authorizeAndReplaceHost; header is <<>> when Proxy-Authorization is
\* missing or does not decode to user:password, else <<[user, pass]>>
authorizeAndReplaceHost(s, host, header) ==
    IF s.AccountName # <<>>
    THEN LET a == Get(s.AccountName)
         IN  IF a = <<>> THEN [err |-> TRUE, getNil |-> TRUE, newHost |-> <<>>]
             ELSE [err |-> FALSE, getNil |-> FALSE,
                   newHost |-> ReplaceHost(a[1].Routes, host)]
    ELSE IF header = <<>> THEN [err |-> TRUE, getNil |-> FALSE, newHost |-> <<>>]
    ELSE IF s.Password # <<>> /\ header[1].pass # s.Password
         THEN [err |-> TRUE, getNil |-> FALSE, newHost |-> <<>>]
    ELSE LET a == Get(header[1].user)
         IN  IF a = <<>> THEN [err |-> TRUE, getNil |-> TRUE, newHost |-> <<>>]
             ELSE [err |-> FALSE, getNil |-> FALSE,
                   newHost |-> ReplaceHost(a[1].Routes, host)]

\* the HTTP server main configures (main.go:128-131)
HTTPServer == [AccountName |-> rq.account, Password |-> rq.password]

\* the SOCKS server main configures (main.go:141-142): Password is not set
SOCKSServer == [AccountName |-> rq.account, Password |-> <<>>]

\* "0.0.0.0", abbreviated
ZERO_HOST == <<"0">>

ServeNames == {<<"m">>, <<"u">>}
ServePasswords == {<<>>, <<"p">>, <<"q">>}
ServeHeaders == {<<>>} \cup {<<[user |-> u, pass |-> w]>> : u \in ServeNames, w \in ServePasswords}
ServeHosts == {<<"a">>, <<"b">>, <<"a", ":", "b">>}
\* q.Name of the first question; <<"?">> stands for a message without question
NoQuestion == <<"?">>
ServeQueries == {NoQuestion, <<>>, <<"a", ".">>, <<"b", ".">>}

Result(kind, to) == [kind |-> kind, to |-> to]

\* proxyHTTP and proxyHTTPConnect: auth.BasicUnauthorized is the 407 response
ProxyHTTP(adapter) ==
    /\ rq.stage = "idle"
    /\ ~(rq.reverse /\ rq.account # <<>>)
    /\ \E host \in ServeHosts, header \in ServeHeaders :
         LET r == authorizeAndReplaceHost(HTTPServer, host, header)
         IN  rq' = [rq EXCEPT !.stage = "done", !.adapter = adapter, !.host = host,
                              !.user = IF header = <<>> THEN <<>> ELSE header[1].user,
                              !.pass = IF header = <<>> THEN <<>> ELSE header[1].pass,
                              !.method = IF header = <<>> THEN "none" ELSE "basic",
                              !.getNil = r.getNil,
                              !.out = IF r.err THEN Result("407", <<>>)
                                      ELSE Result("forward", r.newHost)]
    /\ UNCHANGED <<rhRoutes, rhHost, rhResult, upstreamVars, registryVars, rl, panicked,
                   started, cl, sysVars>>

\* the Director of NewRevHTTP; ReverseProxy then sends the request to URL.Host
RevHTTPDirector ==
    /\ rq.stage = "idle"
    /\ rq.reverse /\ rq.account # <<>>
    /\ \E host \in ServeHosts :
         LET a == Get(rq.account)
         IN  rq' = [rq EXCEPT !.stage = "done", !.adapter = "revhttp", !.host = host,
                              !.getNil = (a = <<>>),
                              !.out = IF a = <<>> THEN Result("forward", ZERO_HOST)
                                      ELSE Result("forward",
                                                  ReplaceHost(a[1].Routes, host))]
    /\ UNCHANGED <<rhRoutes, rhHost, rhResult, upstreamVars, registryVars, rl, panicked,
                   started, cl, sysVars>>

\* SOCKS.noauthorizeSOCKS
NoauthorizeSOCKS ==
    /\ rq.stage = "idle"
    /\ LET a == Get(SOCKSServer.AccountName)
           none == SOCKSServer.AccountName = <<>>
       IN  rq' = [rq EXCEPT !.adapter = "socks", !.method = "noauth",
                            !.stage = IF none \/ a = <<>> THEN "done" ELSE "authed",
                            !.getNil = (~none /\ a = <<>>),
                            !.data = IF none THEN <<>> ELSE a,
                            !.out = IF none \/ a = <<>> THEN Result("authfail", <<>>)
                                    ELSE Result("", <<>>)]
    /\ UNCHANGED <<rhRoutes, rhHost, rhResult, upstreamVars, registryVars, rl, panicked,
                   started, cl, sysVars>>

\* SOCKS.authorizeSOCKS
AuthorizeSOCKS ==
    /\ rq.stage = "idle"
    /\ \E username \in ServeNames, password \in ServePasswords :
         LET wrong == SOCKSServer.Password # <<>> /\ password # SOCKSServer.Password
             a == Get(username)
         IN  rq' = [rq EXCEPT !.adapter = "socks", !.method = "userpass",
                              !.user = username, !.pass = password,
                              !.stage = IF wrong \/ a = <<>> THEN "done" ELSE "authed",
                              !.getNil = (~wrong /\ a = <<>>),
                              !.data = IF wrong THEN <<>> ELSE a,
                              !.out = IF wrong \/ a = <<>> THEN Result("authfail", <<>>)
                                      ELSE Result("", <<>>)]
    /\ UNCHANGED <<rhRoutes, rhHost, rhResult, upstreamVars, registryVars, rl, panicked,
                   started, cl, sysVars>>

\* SOCKS.proxySOCKSConnect, on a connection that passed authentication
ProxySOCKSConnect ==
    /\ rq.stage = "authed"
    /\ \E host \in ServeHosts :
         rq' = [rq EXCEPT !.stage = "done", !.host = host,
                          !.out = IF rq.data # <<>>
                                  THEN Result("forward", ReplaceHost(rq.data[1].Routes, host))
                                  ELSE Result("forward", host)]
    /\ UNCHANGED <<rhRoutes, rhHost, rhResult, upstreamVars, registryVars, rl, panicked,
                   started, cl, sysVars>>

\* mutant: the name is looked up with its trailing dot
DomainWithDot(name) == name

\* q.Name[:len(q.Name)-1]
Domain(name) == SubSeq(name, 1, Len(name) - 1)

\* DNS.ServeDNS: SERVFAIL, the query forwarded to the name server, or an
\* answer made here from the rewritten host
ServeDNS ==
    /\ rq.stage = "idle"
    /\ \E name \in ServeQueries :
         LET ac == Get(rq.account)
             h == ReplaceHost(ac[1].Routes, Domain(name))
         IN  rq' = [rq EXCEPT !.stage = "done", !.adapter = "dns", !.host = name,
                              !.getNil = (ac = <<>>),
                              !.out = IF ac = <<>> THEN Result("servfail", <<>>)
                                      ELSE IF name = NoQuestion THEN Result("servfail", <<>>)
                                      ELSE IF Len(name) = 0 THEN Result("servfail", <<>>)
                                      ELSE IF h = Domain(name) THEN Result("upstream", <<>>)
                                      ELSE Result("local", h)]
    /\ UNCHANGED <<rhRoutes, rhHost, rhResult, upstreamVars, registryVars, rl, panicked,
                   started, cl, sysVars>>

(***************************************************************************)
(* SpecServe: one request to each adapter, for every published table and   *)
(* every setting of the flags -account, -password and -reverse             *)
(***************************************************************************)
ServeTables ==
    {EmptyMap} \cup
    {[n \in {<<"m">>} |-> [Name |-> n, Routes |-> r]] :
        r \in {q \in RouteLists : Len(q) <= 1}}

InitServe ==
    /\ rhRoutes = <<>>
    /\ rhHost = <<>>
    /\ rhResult = <<>>
    /\ rq \in {[NoRequest EXCEPT !.account = a, !.password = w, !.reverse = v] :
                  a \in {<<>>} \cup ServeNames, w \in {<<>>, <<"p">>}, v \in BOOLEAN}
    /\ dockerAddr = <<>>
    /\ etcd = NoRoot
    /\ docker = {}
    /\ \E tbl \in ServeTables :
         /\ heap = [i \in ObjIds |-> IF i = 1 THEN [live |-> TRUE, tbl |-> tbl] ELSE FreeObj]
         /\ pub = [i \in ObjIds |-> IF i = 1 THEN [by |-> "Reload", tbl |-> tbl]
                                     ELSE NotPublished]
    /\ accountsRef = 1
    /\ rl = [c \in Callers |-> IdleReload]
    /\ panicked = FALSE
    /\ started = TRUE
    /\ cl = IdleConn
    /\ main = [pc |-> "done", sleep |-> 0]
    /\ watch = [pc |-> "off", t |-> -1]
    /\ etcdW = [pc |-> "off", pending |-> 0]
    /\ dockerW = [pc |-> "off", buf |-> 0, sleep |-> 0]
    /\ gh = NoHistory

NextServe ==
    \/ ProxyHTTP("http")
    \/ ProxyHTTP("connect")
    \/ RevHTTPDirector
    \/ NoauthorizeSOCKS
    \/ AuthorizeSOCKS
    \/ ProxySOCKSConnect
    \/ ServeDNS

SpecServe == InitServe /\ [][NextServe]_vars

(***************************************************************************)
(* main: the initial load, then Watch and the transport adapters           *)
(***************************************************************************)
\* mutant: the adapters are started after the first Reload, failed or not
LoadAttempted(err) == TRUE

\* the loop `for err != nil` is left
LoadSucceeded(err) == err = ""

\* main.go:111, err := ac.Reload()
MainReload ==
    /\ ~panicked
    /\ main.pc = "start"
    /\ ReloadEnter("main")
    /\ main' = [main EXCEPT !.pc = "reload"]
    /\ UNCHANGED <<matcherVars, upstreamVars, registryVars, panicked, started, cl,
                   watch, etcdW, dockerW, gh>>

\* main.go:112-113, the result of Reload is tested; time.Sleep(time.Second)
MainAfterReload ==
    /\ ~panicked
    /\ main.pc = "reload"
    /\ rl["main"].pc = "ret"
    /\ rl' = [rl EXCEPT !["main"] = IdleReload]
    /\ IF LoadSucceeded(rl["main"].err)
       THEN /\ main' = [main EXCEPT !.pc = "spawn"]
            /\ gh' = [gh EXCEPT !.lastFail["main"] = FALSE]
       ELSE /\ main' = [pc |-> "sleep", sleep |-> TicksPerSecond]
            /\ gh' = [gh EXCEPT !.lastFail["main"] = TRUE, !.slept = 0]
    /\ UNCHANGED <<matcherVars, upstreamVars, registryVars, panicked, started, cl,
                   watch, etcdW, dockerW>>

\* main.go:114-115, the sleep is over: err = ac.Reload()
MainRetry ==
    /\ ~panicked
    /\ main.pc = "sleep"
    /\ main.sleep = 0
    /\ ReloadEnter("main")
    /\ main' = [main EXCEPT !.pc = "reload"]
    /\ UNCHANGED <<matcherVars, upstreamVars, registryVars, panicked, started, cl,
                   watch, etcdW, dockerW, gh>>

\* main.go:118-160, go ac.Watch() and the goroutines of the adapters
MainSpawn ==
    /\ ~panicked
    /\ main.pc = "spawn"
    /\ main' = [main EXCEPT !.pc = "done"]
    /\ watch' = [watch EXCEPT !.pc = "init"]
    /\ started' = TRUE
    /\ gh' = [gh EXCEPT !.slept = 0]
    /\ UNCHANGED <<matcherVars, upstreamVars, registryVars, rl, panicked, cl,
                   etcdW, dockerW>>

(***************************************************************************)
(* Accounts.Watch                                                          *)
(***************************************************************************)
\* lines 347-357: the channels, the two stream readers, var t
WatchInit ==
    /\ ~panicked
    /\ watch.pc = "init"
    /\ watch' = [pc |-> "select", t |-> -1]
    /\ etcdW' = [pc |-> "call", pending |-> 0]
    /\ dockerW' = IF dockerAddr # <<>> THEN [pc |-> "connect", buf |-> 0, sleep |-> 0]
                  ELSE dockerW
    /\ UNCHANGED <<matcherVars, upstreamVars, registryVars, rl, panicked, started, cl,
                   main, gh>>

\* mutant: a timer that is already running is kept
AfterKeepingFirst(tm) == IF tm > 0 THEN tm ELSE TicksPerSecond

\* mutant: a received token leaves t as it is
AfterIgnored(tm) == tm

\* t = time.After(time.Second): the channel of a new timer replaces t
After(tm) == TicksPerSecond

\* history: Watch has received an event token; a token that finds no timer
\* running begins a new burst, and the burst is over when its Reload returns
TokenReceived(g, tm) ==
    [g EXCEPT !.sinceToken = 0,
              !.burstTokens = IF tm < 0 THEN 1 ELSE IF @ < MaxCount THEN @ + 1 ELSE @,
              !.burstReloads = IF tm < 0 THEN 0 ELSE @,
              !.lastFail["watch"] = FALSE]

\* lines 361-365: case r := <-recvEtcd
WatchRecvEtcd ==
    /\ ~panicked
    /\ watch.pc = "select"
    /\ etcdW.pc = "send"
    /\ etcdW' = [etcdW EXCEPT !.pc = "watching"]
    /\ watch' = [watch EXCEPT !.t = After(watch.t)]
    /\ gh' = [TokenReceived(gh, watch.t) EXCEPT
                 !.reest = IF @ = "yes" THEN "taken" ELSE @]
    /\ UNCHANGED <<matcherVars, upstreamVars, registryVars, rl, panicked, started, cl,
                   main, dockerW>>

\* lines 366-370: case r := <-recvDocker
WatchRecvDocker ==
    /\ ~panicked
    /\ watch.pc = "select"
    /\ dockerW.pc = "send"
    /\ dockerW' = [dockerW EXCEPT !.pc = "decode"]
    /\ watch' = [watch EXCEPT !.t = After(watch.t)]
    /\ gh' = TokenReceived(gh, watch.t)
    /\ UNCHANGED <<matcherVars, upstreamVars, registryVars, rl, panicked, started, cl,
                   main, etcdW>>

\* mutant: go a.Reload(), Watch goes back to its select at once
ReloadSpawned == [pc |-> "select", t |-> -1]

\* mutant: the timer that fired stays ready and fires again
ReloadCalledTimerKept == [pc |-> "reload", t |-> 0]

\* a.Reload() is called in the goroutine of Watch, which waits for its return;
\* t has been received from
ReloadCalled == [pc |-> "reload", t |-> -1]

\* lines 371-372: case <-t, and the call of Reload
WatchTimer ==
    /\ ~panicked
    /\ watch.pc = "select"
    /\ watch.t = 0
    /\ watch' = ReloadCalled
    /\ ReloadEnter("watch")
    /\ gh' = [gh EXCEPT !.burstReloads = IF @ < MaxCount THEN @ + 1 ELSE @]
    /\ UNCHANGED <<matcherVars, upstreamVars, registryVars, panicked, started, cl,
                   main, etcdW, dockerW>>

\* mutant: a failed Reload is tried again a second later
RetryAfterFailure(tm) == TicksPerSecond

\* lines 372-375: log.Println("watch:", err); break -- t is left as it is
AfterFailure(tm) == tm

\* lines 372-377: Reload has returned; back to the select
WatchAfterReload ==
    /\ ~panicked
    /\ watch.pc = "reload"
    /\ rl["watch"].pc = "ret"
    /\ rl' = [rl EXCEPT !["watch"] = IdleReload]
    /\ IF rl["watch"].err # ""
       THEN /\ watch' = [pc |-> "select", t |-> AfterFailure(watch.t)]
            /\ gh' = [gh EXCEPT !.lastFail["watch"] = TRUE,
                                !.burstTokens = 0, !.burstReloads = 0,
                                !.reest = IF @ = "taken" THEN "no" ELSE @]
       ELSE /\ watch' = [watch EXCEPT !.pc = "select"]
            /\ gh' = [gh EXCEPT !.burstTokens = 0, !.burstReloads = 0,
                                !.reest = IF @ = "taken" THEN "no" ELSE @]
    /\ UNCHANGED <<matcherVars, upstreamVars, registryVars, panicked, started, cl,
                   main, etcdW, dockerW>>

(***************************************************************************)
(* watchEtcdEvent.  etcdClient.Watch(root, 0, true, recv, nil) watches     *)
(* from the change after the one current when it is called, hands every    *)
(* later change to recv in order, and returns only with an error; recv is  *)
(* taken to stay open across calls.                                        *)
(***************************************************************************)
\* line 384: the call; changes made before it are not reported
EtcdWatchCall ==
    /\ ~panicked
    /\ etcdW.pc = "call"
    /\ etcdW' = [pc |-> "watching", pending |-> 0]
    /\ gh' = [gh EXCEPT !.reest = IF @ = "err" THEN "yes" ELSE @]
    /\ UNCHANGED <<matcherVars, upstreamVars, registryVars, rl, panicked, started, cl,
                   main, watch, dockerW>>

\* the watch has the next change and offers it on recv
EtcdWatchEvent ==
    /\ ~panicked
    /\ etcdW.pc = "watching"
    /\ etcdW.pending > 0
    /\ etcdW' = [pc |-> "send", pending |-> etcdW.pending - 1]
    /\ UNCHANGED <<matcherVars, upstreamVars, registryVars, rl, panicked, started, cl,
                   main, watch, dockerW, gh>>

\* mutant: return err, the goroutine ends
WatchGivenUp == [pc |-> "off", pending |-> 0]

\* continue: the next round of the loop calls Watch again
WatchAgain == [pc |-> "call", pending |-> 0]

\* history: the etcd stream has failed and is being re-established ("err"),
\* is established again ("yes"), has had a token taken by Watch since ("taken").
\* It is kept where no Docker address is configured, so that recvEtcd is the
\* only source of the tokens Watch receives.
StreamFailed(g) == [g EXCEPT !.reest = IF dockerAddr = <<>> THEN "err" ELSE @]

\* lines 385-388: Watch returned an error; it is called again, from index 0
EtcdWatchError ==
    /\ ~panicked
    /\ etcdW.pc = "watching"
    /\ etcdW' = WatchAgain
    /\ gh' = StreamFailed(gh)
    /\ UNCHANGED <<matcherVars, upstreamVars, registryVars, rl, panicked, started, cl,
                   main, watch, dockerW>>

(***************************************************************************)
(* watchDockerEvent                                                        *)
(***************************************************************************)
\* line 404: GET /events succeeds; the stream carries what happens from now
DockerConnect ==
    /\ ~panicked
    /\ dockerW.pc = "connect"
    /\ dockerW' = [pc |-> "decode", buf |-> 0, sleep |-> 0]
    /\ UNCHANGED <<matcherVars, upstreamVars, registryVars, rl, panicked, started, cl,
                   main, watch, etcdW, gh>>

\* lines 405-408 and 423: GET /events fails; time.Sleep(time.Second)
DockerConnectError ==
    /\ ~panicked
    /\ dockerW.pc = "connect"
    /\ dockerW' = [pc |-> "sleep", buf |-> 0, sleep |-> TicksPerSecond]
    /\ UNCHANGED <<matcherVars, upstreamVars, registryVars, rl, panicked, started, cl,
                   main, watch, etcdW, gh>>

\* lines 414-420: one object is decoded and offered on recv
DockerDecode ==
    /\ ~panicked
    /\ dockerW.pc = "decode"
    /\ dockerW.buf > 0
    /\ dockerW' = [dockerW EXCEPT !.pc = "send", !.buf = @ - 1]
    /\ UNCHANGED <<matcherVars, upstreamVars, registryVars, rl, panicked, started, cl,
                   main, watch, etcdW, gh>>

\* lines 416-419 and 423: the stream ends or does not decode; the body is
\* closed with what it still held, time.Sleep(time.Second)
DockerStreamError ==
    /\ ~panicked
    /\ dockerW.pc = "decode"
    /\ dockerW' = [pc |-> "sleep", buf |-> 0, sleep |-> TicksPerSecond]
    /\ UNCHANGED <<matcherVars, upstreamVars, registryVars, rl, panicked, started, cl,
                   main, watch, etcdW, gh>>

\* line 423 is over: the next round of the loop
DockerWake ==
    /\ ~panicked
    /\ dockerW.pc = "sleep"
    /\ dockerW.sleep = 0
    /\ dockerW' = [dockerW EXCEPT !.pc = "connect"]
    /\ UNCHANGED <<matcherVars, upstreamVars, registryVars, rl, panicked, started, cl,
                   main, watch, etcdW, gh>>

(***************************************************************************)
(* The clock                                                               *)
(***************************************************************************)
Down(n) == IF n > 0 THEN n - 1 ELSE n
Up(n) == IF n < TicksPerSecond THEN n + 1 ELSE n

\* one tick passes for every running timer and sleep
Tick ==
    /\ ~panicked
    /\ watch.t > 0 \/ main.sleep > 0 \/ dockerW.sleep > 0
          \/ gh.sinceToken < TicksPerSecond
    /\ watch' = [watch EXCEPT !.t = Down(@)]
    /\ main' = [main EXCEPT !.sleep = Down(@)]
    /\ dockerW' = [dockerW EXCEPT !.sleep = Down(@)]
    /\ gh' = [gh EXCEPT !.sinceToken = Up(@),
                        !.slept = IF main.pc = "sleep" THEN Up(@) ELSE @]
    /\ UNCHANGED <<matcherVars, upstreamVars, registryVars, rl, panicked, started, cl,
                   etcdW>>

(***************************************************************************)
(* Spec: the process from the start of main                                *)
(***************************************************************************)
SysLeaves == {Leaf(<<"m">>, CONTAINER_C, <<"b">>, <<"a">>)}

Init ==
    /\ rhRoutes = <<>>
    /\ rhHost = <<>>
    /\ rhResult = <<>>
    /\ rq = NoRequest
    /\ dockerAddr \in {<<>>, <<"d">>}
    /\ etcd \in {NoRoot} \cup
                {[root |-> TRUE, accounts |-> {l.acct}, leaves |-> {l}] : l \in SysLeaves}
    /\ docker \in SUBSET Containers
    /\ InitRegistry

Next ==
    \/ MainReload
    \/ MainAfterReload
    \/ MainRetry
    \/ MainSpawn
    \/ \E c \in Callers : ReloadDocker(c)
    \/ \E c \in Callers : ReloadEtcd(c)
    \/ \E c \in Callers : ReloadPublish(c)
    \/ WatchInit
    \/ WatchRecvEtcd
    \/ WatchRecvDocker
    \/ WatchTimer
    \/ WatchAfterReload
    \/ EtcdWatchCall
    \/ EtcdWatchEvent
    \/ EtcdWatchError
    \/ DockerConnect
    \/ DockerConnectError
    \/ DockerDecode
    \/ DockerStreamError
    \/ DockerWake
    \/ Tick
    \/ ConnGetMap
    \/ \E n \in ConnNames : ConnLookup(n)
    \/ ConnClose
    \/ \E l \in SysLeaves : EtcdPut(l, SysMaxLeaves)
    \/ \E l \in SysLeaves : EtcdDelete(l)
    \/ \E k \in Containers : DockerStart(k)
    \/ \E k \in Containers : DockerStop(k)

Spec == Init /\ [][Next]_vars

(***************************************************************************)
(* SpecReplace: ReplaceHost applied to every route list and host.          *)
(***************************************************************************)
InitReplace ==
    /\ rhRoutes \in RouteLists
    /\ rhHost \in Hosts
    /\ rhResult = <<>>
    /\ rq = NoRequest
    /\ dockerAddr = <<>>
    /\ etcd = NoRoot
    /\ docker = {}
    /\ InitRegistry

CallReplaceHost ==
    /\ rhResult = <<>>
    /\ rhResult' = <<ReplaceHost(rhRoutes, rhHost)>>
    /\ UNCHANGED <<rhRoutes, rhHost, rq>>
    /\ UNCHANGED <<upstreamVars, registryVars, rl, panicked, started, cl, sysVars>>

NextReplace == CallReplaceHost

SpecReplace == InitReplace /\ [][NextReplace]_vars

(***************************************************************************)
(* Claims about ReplaceHost (checked under SpecReplace)                    *)
(***************************************************************************)
\* the part of h before its first ':' (all of h when it has none)
NamePortion(h) ==
    LET n == CHOOSE k \in 0..Len(h) :
                /\ \A j \in 1..k : h[j] # ":"
                /\ (k < Len(h) => h[k + 1] = ":")
    IN  SubSeq(h, 1, n)

HasColon(h) == \E j \in 1..Len(h) : h[j] = ":"

\* the part of h after its first ':'
PortPortion(h) == SubSeq(h, Len(NamePortion(h)) + 2, Len(h))

SomeRouteMatches(r, n) == \E i \in 1..Len(r) : MatchString(r[i].Regexp, n)

\* the first route of r, in list order, whose pattern matches n
FirstMatching(r, n) ==
    r[CHOOSE i \in 1..Len(r) :
        /\ MatchString(r[i].Regexp, n)
        /\ \A j \in 1..(i - 1) : ~MatchString(r[j].Regexp, n)]

Called == rhResult # <<>>

\* C4 as the spec states it: ReplaceHost(h) equals h if and only if no route
\* pattern matches the name portion of h.  (Violated: a matching route whose
\* Host is the name portion itself rewrites h to h.)
C4_IffNoMatch ==
    Called =>
        ((rhResult[1] = rhHost) <=> ~SomeRouteMatches(rhRoutes, NamePortion(rhHost)))

\* C4 amended: ReplaceHost(h) equals h if and only if no route pattern matches
\* the name portion of h, or the first matching route's Host, followed by ':'
\* and the port when the port is not empty, is h itself.
C4_IffNoMatchOrSelf ==
    Called =>
        LET n == NamePortion(rhHost)
            p == PortPortion(rhHost)
        IN  (rhResult[1] = rhHost) <=>
                \/ ~SomeRouteMatches(rhRoutes, n)
                \/ LET to == FirstMatching(rhRoutes, n).Host
                   IN  rhHost = (IF p # <<>> THEN to \o <<":">> \o p ELSE to)

\* C4 witness: a call with a port where a pattern matches the port but none
\* matches the name, and the host comes back as it was
C4_Witness ==
    /\ Called
    /\ HasColon(rhHost)
    /\ ~SomeRouteMatches(rhRoutes, NamePortion(rhHost))
    /\ SomeRouteMatches(rhRoutes, PortPortion(rhHost))
    /\ PortPortion(rhHost) # <<>>
    /\ rhResult[1] = rhHost

\* C5 as the spec states it: for every host n:p (p any string after the first
\* ':'), if some route matches n the result is route.Host ++ ":" ++ p for the
\* first matching route.  (Violated for the empty p: "a:" becomes route.Host.)
C5_PortPreservedAnyPort ==
    (Called /\ HasColon(rhHost)
        /\ SomeRouteMatches(rhRoutes, NamePortion(rhHost))) =>
        rhResult[1] = FirstMatching(rhRoutes, NamePortion(rhHost)).Host
                        \o <<":">> \o PortPortion(rhHost)

\* C5 amended: for every host n:p, the pattern is matched against n only (no
\* match on n leaves the host unchanged, whatever p holds); if some route
\* matches n the result is route.Host ++ ":" ++ p for the first matching route
\* when p is not empty, and route.Host alone when p is empty.
C5_PortPreserved ==
    (Called /\ HasColon(rhHost)) =>
        LET n == NamePortion(rhHost)
            p == PortPortion(rhHost)
        IN  IF ~SomeRouteMatches(rhRoutes, n) THEN rhResult[1] = rhHost
            ELSE IF p # <<>>
                 THEN rhResult[1] = FirstMatching(rhRoutes, n).Host \o <<":">> \o p
                 ELSE rhResult[1] = FirstMatching(rhRoutes, n).Host

\* C5 witness: a host with a two-character port rewritten by the second route
\* of the list, the first not matching
C5_Witness ==
    /\ Called
    /\ HasColon(rhHost)
    /\ Len(PortPortion(rhHost)) = 2
    /\ Len(rhRoutes) = 2
    /\ ~MatchString(rhRoutes[1].Regexp, NamePortion(rhHost))
    /\ MatchString(rhRoutes[2].Regexp, NamePortion(rhHost))
    /\ rhResult[1] = rhRoutes[2].Host \o <<":">> \o PortPortion(rhHost)

(***************************************************************************)
(* Claims about the registry (checked under SpecReload)                    *)
(***************************************************************************)
Returned(c) == rl[c].pc = "ret"

\* C1: a Reload that returns an error (the inventory fetch failed, or the
\* store failed with anything but "key not found") leaves the table readers
\* are handed exactly as it was when the call began.
C1_FailedReloadKeepsSnapshot ==
    \A c \in Callers : (Returned(c) /\ rl[c].err # "") => Snapshot = rl[c].pre

\* C1 witness: a Reload has failed while a non-empty table was published and
\* the store no longer holds what that table was built from
C1_Witness ==
    \E c \in Callers :
        /\ Returned(c)
        /\ rl[c].err = "etcd"
        /\ \E n \in DOMAIN Snapshot : Snapshot[n].Routes # <<>>
        /\ etcd.leaves = {}

\* C2 as the spec states it: with the root key absent, Reload returns no error
\* and publishes a table of zero accounts whatever the state of the container
\* runtime, reachable or not (the store itself answering).  (Violated: with
\* the runtime configured and its inventory fetch failing, Reload returns
\* that error before it asks the store.)
C2_AbsentRootAnyRuntime ==
    \A c \in Callers :
        (Returned(c) /\ rl[c].absent /\ rl[c].answer # "fail") =>
            (rl[c].err = "" /\ Snapshot = EmptyMap)

\* C2 amended: whenever the store answers that the root key does not exist,
\* Reload returns no error and publishes a table of zero accounts; the store
\* is asked only when the runtime is not configured or its inventory fetch
\* succeeded: a failed fetch returns its error first, the table untouched.
C2_AbsentRootEmptySnapshot ==
    \A c \in Callers :
        /\ (Returned(c) /\ rl[c].answer = "absent") =>
                /\ rl[c].err = ""
                /\ Snapshot = EmptyMap
                /\ (dockerAddr = <<>> \/ rl[c].fetched)
        /\ (Returned(c) /\ rl[c].err = "docker") =>
                (rl[c].answer = "" /\ Snapshot = rl[c].pre)

\* C2 witness: the runtime is configured and answered, the store said "key
\* not found", and the table that was not empty before the call is empty now
C2_Witness ==
    \E c \in Callers :
        /\ Returned(c)
        /\ rl[c].answer = "absent"
        /\ dockerAddr # <<>>
        /\ rl[c].pre # EmptyMap
        /\ Snapshot = EmptyMap

\* C3: in every reachable state the route list of every account of the
\* published table, and of the view a connection holds, is in priority
\* descending order.
C3_RoutesSortedDescending ==
    /\ \A n \in DOMAIN Snapshot : SortedDesc(Snapshot[n].Routes)
    /\ cl.pc \in {"held", "connected"} => SortedDesc(heap[cl.map].tbl[cl.name].Routes)

\* C3 witness: a published account with two routes of different priorities
C3_Witness ==
    \E n \in DOMAIN Snapshot :
        /\ Len(Snapshot[n].Routes) = 2
        /\ Snapshot[n].Routes[1].Priority > Snapshot[n].Routes[2].Priority

\* C10: the map a reader got from get, and the account it looked up in it, are
\* those of one table a Reload published, unchanged since it was published;
\* and the routes of a view a connection holds stay what they were when it was
\* obtained, whatever Reload does later.
C10_ReadersSeePublishedSnapshots ==
    /\ cl.pc \in {"lookup", "held", "connected"} =>
            /\ pub[cl.map].by = "Reload"
            /\ heap[cl.map].live
            /\ heap[cl.map].tbl = pub[cl.map].tbl
    /\ cl.pc \in {"held", "connected"} =>
            /\ cl.name \in DOMAIN heap[cl.map].tbl
            /\ heap[cl.map].tbl[cl.name].Routes = cl.seen

\* C10 witness: a connection holds a view with routes while a later Reload has
\* published a table in which that account has other routes
C10_Witness ==
    /\ cl.pc = "held"
    /\ cl.seen # <<>>
    /\ cl.map # accountsRef
    /\ cl.name \in DOMAIN Snapshot
    /\ Snapshot[cl.name].Routes # cl.seen
    /\ \E c \in Callers : rl[c].pc = "publish"


(***************************************************************************)
(* Claims about main and Watch (Spec)                                      *)
(***************************************************************************)
\* the tables a Reload of the upstream state of this moment can publish
CurrentInventories ==
    IF dockerAddr = <<>> THEN {EmptyMap}
    ELSE {getContainers(co, EmptyMap).m : co \in Orderings(docker)}

CurrentTables ==
    IF ~etcd.root THEN {EmptyMap}
    ELSE UNION {Builds(TreeRead(etcd, ord), dockerAddr, m) :
                    ord \in Orderings(etcd.leaves), m \in CurrentInventories}

\* nothing is left that leads Watch to a Reload: no timer runs, no Reload
\* runs, no stream holds a change; only a further upstream change ends this
Settled ==
    /\ main.pc = "done"
    /\ watch.pc = "select" /\ watch.t = -1
    /\ \A c \in Callers : rl[c].pc = "idle"
    /\ etcdW.pc = "watching" /\ etcdW.pending = 0
    /\ dockerAddr # <<>> => dockerW.pc = "decode" /\ dockerW.buf = 0

\* C6: Watch starts a Reload only when a full second has passed since the
\* last event token it received (a running timer always ends one second after
\* that token), and a burst of tokens, each received while the timer of the
\* one before was running, gets exactly one Reload: none while the timer
\* runs, one once it has been consumed, never two.
C6_OneReloadPerBurst ==
    /\ watch.t >= 0 => watch.t + gh.sinceToken = TicksPerSecond
    /\ watch.t >= 0 => gh.burstReloads = 0
    /\ (gh.burstTokens > 0 /\ watch.t = -1) => gh.burstReloads = 1
    /\ watch.pc = "reload" =>
          /\ gh.burstTokens > 0 /\ gh.burstReloads = 1
          /\ rl["watch"].pc = "docker" => gh.sinceToken = TicksPerSecond

\* a burst of two tokens has been received and its one Reload is running
C6_Witness ==
    /\ gh.burstTokens = 2
    /\ watch.pc = "reload"
    /\ gh.burstReloads = 1

\* C7 (as claimed): once the process has settled after the last upstream
\* change, the registry holds a snapshot built from the upstream state as it
\* is now.
C7_SettledSnapshotCurrent == Settled => Snapshot \in CurrentTables

\* C8 (as claimed): a Reload of Watch that has failed leaves a timer running
\* that starts the next attempt, as a failed initial Reload leaves main in
\* its one-second sleep.
C8_EveryFailureRetried ==
    /\ gh.lastFail["main"] => main.pc \in {"sleep", "reload"}
    /\ (gh.lastFail["watch"] /\ watch.pc = "select") => watch.t >= 0

\* C8 (amended): a failed initial Reload is followed by another attempt after
\* a sleep of one second, without any upstream event; a failed Reload of
\* Watch is followed by no attempt and no running timer until Watch receives
\* a new event token.
C8_RetryOnlyAtStartup ==
    /\ gh.lastFail["main"] => main.pc \in {"sleep", "reload"}
    /\ main.pc = "sleep" => main.sleep + gh.slept = TicksPerSecond
    /\ gh.lastFail["watch"] => watch.pc = "select" /\ watch.t = -1

\* a Reload of Watch has failed and Watch waits at its select with no timer
C8_Witness ==
    /\ gh.lastFail["watch"]
    /\ watch.pc = "select"
    /\ gh.sinceToken = TicksPerSecond

\* C9: Watch and the transport adapters are started only after a Reload has
\* returned nil, so the registry they read was published by Reload and a
\* connection never holds the map made by New; as long as the initial Reload
\* fails main does nothing but sleep one second and call Reload again.
C9_StartedOnlyAfterLoad ==
    /\ (started \/ watch.pc # "off") => pub[accountsRef].by = "Reload"
    /\ cl.map # 0 => pub[cl.map].by = "Reload"
    /\ gh.lastFail["main"] =>
          /\ ~started /\ watch.pc = "off"
          /\ main.pc \in {"sleep", "reload"}
    /\ (main.pc = "reload" /\ gh.lastFail["main"]) => gh.slept = TicksPerSecond

\* the first Reload failed, the one after the sleep has succeeded, and main
\* is about to start Watch and the adapters
C9_Witness ==
    /\ main.pc = "spawn"
    /\ gh.slept = TicksPerSecond
    /\ pub[accountsRef].by = "Reload"


\* the callers whose Reload has been entered and has not returned
Executing == {c \in Callers : rl[c].pc \notin {"idle", "ret"}}

\* C18: at no time are two Reloads executing: Watch exists only once main has
\* left its retry loop with its last Reload returned, and while a Reload
\* called by Watch has not returned Watch is inside that call, not at its
\* select, so it starts no other.
C18_OneReloadAtATime ==
    /\ Cardinality(Executing) <= 1
    /\ watch.pc # "off" => (main.pc = "done" /\ rl["main"].pc = "idle")
    /\ rl["watch"].pc # "idle" => watch.pc = "reload"
    /\ main.pc \in {"start", "sleep", "spawn", "done"} => rl["main"].pc = "idle"

\* C18 witness: the Reload Watch called is reading the store while the
\* config stream already offers the next event
C18_Witness ==
    /\ rl["watch"].pc = "etcd"
    /\ etcdW.pc = "send"
    /\ main.pc = "done"

\* a stream reader stands at its send on recv with an event token
EtcdOffered == etcdW.pc = "send"
DockerOffered == dockerW.pc = "send"

\* Watch takes a token at its select and arms the timer for one second
TokenTaken == watch.pc = "select" /\ watch'.pc = "select" /\ watch'.t = TicksPerSecond

C19_Step ==
    /\ EtcdOffered => (EtcdOffered' \/ TokenTaken)
    /\ DockerOffered => (DockerOffered' \/ TokenTaken)
    /\ watch.t >= 0 =>
          \/ watch'.t >= 0
          \/ watch'.pc = "reload" /\ rl'["watch"].pc = "docker"

\* C19: an event token a stream reader offers while the Reload called by
\* Watch is running stays offered until Watch, back at its select after the
\* Reload returned with or without error, takes it and arms the timer; and a
\* timer once armed is only ever re-armed or ended by the start of a Reload.
C19_EventInFlightNotLost == [][C19_Step]_vars

\* C19 witness: the Reload called by Watch has just returned an error while
\* the container stream reader still offers the event it decoded meanwhile
C19_Witness ==
    /\ watch.pc = "reload"
    /\ rl["watch"].pc = "ret"
    /\ rl["watch"].err # ""
    /\ DockerOffered

\* both stream readers run for as long as Watch does
ReadersAlive ==
    watch.pc \notin {"off", "init"} =>
        /\ etcdW.pc # "off"
        /\ dockerAddr # <<>> => dockerW.pc # "off"

\* a token Watch took from the etcd stream established again after a failure
\* has its timer running or its Reload started
TakenIsServed == gh.reest = "taken" => (watch.t >= 0 \/ watch.pc = "reload")

C20_Step ==
    \* an error of Watch leads straight to the next call of Watch
    /\ etcdW.pc = "watching" /\ etcdW'.pc \notin {"watching", "send"}
          => etcdW' = [pc |-> "call", pending |-> 0]
    /\ etcdW.pc = "call" /\ etcdW' # etcdW
          => etcdW' = [pc |-> "watching", pending |-> 0]
    \* a change of the store under an established watch is one more event
    /\ etcdW.pc = "watching" /\ etcd' # etcd
          => etcdW'.pc = "watching" /\ etcdW'.pending = etcdW.pending + 1
    \* an error of the container stream leads to a pause of one second
    /\ dockerW.pc \in {"connect", "decode"} /\ dockerW'.pc \notin {"connect", "decode", "send"}
          => dockerW'.pc = "sleep" /\ dockerW'.sleep = TicksPerSecond
    \* the pause ends only when the second is over, with a new connection
    /\ dockerW.pc = "sleep" /\ dockerW'.pc # "sleep"
          => dockerW.sleep = 0 /\ dockerW'.pc = "connect"
    \* a start or stop under an established stream is one more event
    /\ dockerW.pc = "decode" /\ docker' # docker
          => dockerW'.pc = "decode" /\ dockerW'.buf = dockerW.buf + 1

\* C20: neither stream reader ever ends: after an error the etcd reader calls
\* Watch again at once and the container reader connects again after a pause
\* of one second; a change of an upstream made once the stream is established
\* again is an event like any other, and the token Watch takes for it arms
\* the timer that starts a Reload.
C20_StreamsRecover == []ReadersAlive /\ []TakenIsServed /\ [][C20_Step]_vars

\* C20 witness: the etcd stream failed and was established again, a later
\* change of the store gave Watch a token, and the Reload that token caused
\* has built the table it is about to publish
C20_Witness ==
    /\ gh.reest = "taken"
    /\ watch.pc = "reload"
    /\ rl["watch"].pc = "publish"

\* Watch has started no more Reloads than it has received tokens since the
\* Reload before, and a Reload it runs has used up the timer
ReloadsWithinTokens ==
    /\ gh.burstReloads <= gh.burstTokens
    /\ gh.burstReloads <= 1
    /\ watch.pc = "reload" => watch.t = -1

C23_Step ==
    \* a Reload of Watch starts only as the timer fires, which ends the timer
    /\ rl["watch"].pc = "idle" /\ rl'["watch"].pc # "idle"
          => /\ watch.pc = "select" /\ watch.t = 0
             /\ watch'.pc = "reload" /\ watch'.t = -1
    \* only a token taken from a stream reader starts a timer
    /\ watch.t = -1 /\ watch'.t # -1
          => /\ watch'.t = TicksPerSecond
             /\ \/ EtcdOffered /\ ~EtcdOffered'
                \/ DockerOffered /\ ~DockerOffered'
    \* Watch comes back from Reload, failed or not, with no timer
    /\ watch.pc = "reload" /\ watch'.pc # "reload"
          => watch'.pc = "select" /\ watch'.t = -1

\* C23: Watch starts a Reload only when a timer fires that a received event
\* token started, and a timer fires once: Watch starts at most as many
\* Reloads as it has received tokens, and once a Reload has returned, with
\* or without error, there is no timer and no Reload until the next token.
C23_ReloadOnlyOnFiredTimer == []ReloadsWithinTokens /\ [][C23_Step]_vars

\* C23 witness: Watch received one token, its timer fired and the one Reload
\* it started has returned nil; Watch is about to go back to its select
C23_Witness ==
    /\ watch.pc = "reload"
    /\ rl["watch"].pc = "ret"
    /\ rl["watch"].err = ""
    /\ gh.burstTokens = 1
    /\ gh.burstReloads = 1

(***************************************************************************)
(* Claims about the table builder (checked under SpecBuild, where the      *)
(* upstreams do not change while Reload runs)                              *)
(***************************************************************************)
\* the text of key before its first '.', and whether it has one
HasDot(key) == \E i \in 1..Len(key) : key[i] = "."
PriorityPrefix(key) ==
    SubSeq(key, 1, (CHOOSE i \in 1..Len(key) :
                        key[i] = "." /\ \A j \in 1..(i - 1) : key[j] # ".") - 1)

\* an optional sign followed by decimal digits, at least one
SignedInteger(t) ==
    LET body == IF t # <<>> /\ t[1] \in {"+", "-"} THEN Tail(t) ELSE t
    IN  body # <<>> /\ \A i \in 1..Len(body) : body[i] \in Digits

ValidLeaf(l) ==
    /\ HasDot(l.key) => SignedInteger(PriorityPrefix(l.key))
    /\ Compile(l.value).ok

\* a destination <name>.container
ContainerDest(d) ==
    Len(d) > Len(SUFFIX) /\ SubSeq(d, Len(d) - Len(SUFFIX) + 1, Len(d)) = SUFFIX
ContainerNameOf(d) == SubSeq(d, 1, Len(d) - Len(SUFFIX))

\* the destination d names a host, or a container of the inventory inv
Resolvable(d, inv) ==
    ContainerDest(d) => (dockerAddr # <<>> /\ ContainerNameOf(d) \in DOMAIN inv)

\* the Reload of caller c has read a tree from the store and returned
BuiltFromTree(c) == Returned(c) /\ rl[c].answer = "tree"

\* C11: a Reload that read the tree succeeds whatever the leaves are; every
\* account of the tree has exactly one route for each leaf that is valid and
\* lies under a resolvable destination, and none for a leaf whose pattern
\* does not compile or whose priority prefix is no signed integer; a valid
\* leaf whose key has no '.' gives a route of priority 0 named by the key.
C11_InvalidLeavesDropped ==
    \A c \in Callers :
        BuiltFromTree(c) =>
            /\ rl[c].err = ""
            /\ DOMAIN Snapshot = etcd.accounts
            /\ \A a \in etcd.accounts :
                 LET kept == {l \in etcd.leaves :
                                /\ l.acct = a
                                /\ Resolvable(l.dest, rl[c].containers)
                                /\ ValidLeaf(l)}
                     R == Snapshot[a].Routes
                 IN  /\ Len(R) = Cardinality(kept)
                     /\ \A l \in kept :
                          ~HasDot(l.key) =>
                             \E i \in 1..Len(R) :
                                 R[i].Priority = 0 /\ R[i].Name = l.key

\* C11 witness: an account of three leaves under one host, one of them
\* invalid and one with a key without '.', has two routes
C11_Witness ==
    \E c \in Callers :
        /\ BuiltFromTree(c)
        /\ Cardinality(etcd.leaves) = 3
        /\ \A l \in etcd.leaves : l.dest = <<"x">>
        /\ Cardinality({l \in etcd.leaves : ~ValidLeaf(l)}) = 1
        /\ \E l \in etcd.leaves : ~HasDot(l.key)
        /\ Len(Snapshot[<<"m">>].Routes) = 2


\* the host a route to destination d connects to
HostOf(d, inv) == IF ContainerDest(d) THEN inv[ContainerNameOf(d)].IPAddress ELSE d

\* the Name of the route of a leaf: its key after the first '.', or all of it
RouteNameOf(key) ==
    IF HasDot(key) THEN SubSeq(key, Len(PriorityPrefix(key)) + 2, Len(key)) ELSE key

\* C12: a Reload that read the tree succeeds also when a destination
\* <name>.container names no container of the inventory this Reload fetched,
\* or no runtime is configured; the account then has no route from a leaf
\* under that destination, and keeps one route, to the right host, for every
\* valid leaf under its other destinations.
C12_MissingContainerSkipped ==
    \A c \in Callers :
        BuiltFromTree(c) =>
            /\ rl[c].err = ""
            /\ \A a \in etcd.accounts :
                 LET inv == rl[c].containers
                     others == {l \in etcd.leaves :
                                  l.acct = a /\ Resolvable(l.dest, inv) /\ ValidLeaf(l)}
                     R == Snapshot[a].Routes
                 IN  /\ Len(R) = Cardinality(others)
                     /\ \A l \in others :
                          \E i \in 1..Len(R) :
                              /\ R[i].Host = HostOf(l.dest, inv)
                              /\ R[i].Name = RouteNameOf(l.key)
                              /\ R[i].Regexp = Compile(l.value).re
                     /\ \A i \in 1..Len(R) :
                          \E l \in others : R[i].Host = HostOf(l.dest, inv)

\* C12 witness: the runtime answered, one destination names a container it
\* does not run and another one it runs; the account has the route to the
\* address of the running one only
C12_Witness ==
    \E c \in Callers :
        /\ BuiltFromTree(c)
        /\ dockerAddr # <<>>
        /\ \E l \in etcd.leaves : l.dest = GHOST_G
        /\ \E l \in etcd.leaves : l.dest = CONTAINER_C
        /\ <<"c">> \in DOMAIN rl[c].containers
        /\ Len(Snapshot[<<"m">>].Routes) = 1
        /\ Snapshot[<<"m">>].Routes[1].Host = <<"i">>


\* C13 (as claimed): whatever well-formed answers the runtime and the store
\* give, Reload ends by returning nil or an error; the process never dies of
\* a panic inside it.
C13_ReloadNeverPanics == ~panicked


\* the routes of account a in the order Reload of caller c came upon their
\* leaves in the tree it read
Discovered(c, a) ==
    LET nodes == rl[c].nodes
        i == CHOOSE k \in 1..Len(nodes) : BaseName(nodes[k].Key) = a
    IN  AccountRoutes(nodes[i].Nodes, dockerAddr, rl[c].containers)

\* the first place of route r in the list q
PlaceOf(q, r) == CHOOSE i \in 1..Len(q) : q[i] = r /\ \A j \in 1..(i - 1) : q[j] # r

\* Reload of caller c has built and sorted the table of the tree it read and
\* is about to publish it
SortedFromTree(c) == rl[c].pc = "publish" /\ rl[c].answer = "tree"

\* C17 (as claimed): in every account of a table Reload publishes, two routes
\* of equal priority stand in the order in which their leaves were discovered.
C17_TiesKeepDiscoveryOrder ==
    \A c \in Callers :
        SortedFromTree(c) =>
            \A a \in DOMAIN heap[rl[c].accounts].tbl :
                LET D == Discovered(c, a)
                    R == heap[rl[c].accounts].tbl[a].Routes
                IN  \A i, j \in 1..Len(D) :
                        (i < j /\ D[i].Priority = D[j].Priority /\ D[i] # D[j])
                            => PlaceOf(R, D[i]) < PlaceOf(R, D[j])

\* the account nodes and the leaves of the tree nodes a Reload read
NodeAccounts(nodes) == {BaseName(nodes[i].Key) : i \in 1..Len(nodes)}
NodeLeaves(nodes) ==
    UNION {UNION {{Leaf(BaseName(nodes[i].Key), BaseName(nodes[i].Nodes[j].Key),
                        BaseName(nodes[i].Nodes[j].Nodes[k].Key),
                        nodes[i].Nodes[j].Nodes[k].Value) :
                      k \in 1..Len(nodes[i].Nodes[j].Nodes)} :
                  j \in 1..Len(nodes[i].Nodes)} :
           i \in 1..Len(nodes)}

\* caller c's Reload publishes the table it built and returns nil
Publishes(c) == rl[c].pc = "publish" /\ rl'[c].pc = "ret"

C21_Step ==
    \A c \in Callers :
        Publishes(c) =>
            LET read == rl[c].nodes
                inv == rl[c].containers
                T == Snapshot'
            IN  /\ rl'[c].err = ""
                /\ DOMAIN T = NodeAccounts(read)
                /\ \A a \in DOMAIN T :
                     LET kept == {l \in NodeLeaves(read) :
                                    l.acct = a /\ Resolvable(l.dest, inv) /\ ValidLeaf(l)}
                         R == T[a].Routes
                     IN  /\ T[a].Name = a
                         /\ Len(R) = Cardinality(kept)
                         /\ \A i \in 1..Len(R) :
                              \E l \in kept :
                                  /\ R[i].Host = HostOf(l.dest, inv)
                                  /\ R[i].Name = RouteNameOf(l.key)
                                  /\ R[i].Regexp = Compile(l.value).re
                         /\ kept = {} => \A h \in Hosts : ReplaceHost(R, h) = h

\* C21: when a Reload publishes, the accounts of the new snapshot are exactly
\* the account nodes of the tree this Reload read (none at all when the root
\* was absent), an account node without a valid route under a resolvable
\* destination included, whose ReplaceHost returns every host unchanged; and
\* every route of the new snapshot comes from a leaf of that tree, so that
\* nothing of the snapshot before survives on its own.
C21_SnapshotIsTheTreeRead == [][C21_Step]_vars

\* C21 witness: a Reload has returned nil; the snapshot it found had a route
\* for account m, the tree it read still has the account node but no leaf
\* that gives a route, and the snapshot now has m with no route
C21_Witness ==
    \E c \in Callers :
        /\ Returned(c)
        /\ rl[c].err = ""
        /\ rl[c].answer = "tree"
        /\ <<"m">> \in DOMAIN rl[c].pre
        /\ rl[c].pre[<<"m">>].Routes # <<>>
        /\ <<"m">> \in DOMAIN Snapshot
        /\ Snapshot[<<"m">>].Routes = <<>>

\* the text t ends with ".container"
EndsWithSuffix(t) ==
    Len(t) >= Len(SUFFIX) /\ SubSeq(t, Len(t) - Len(SUFFIX) + 1, Len(t)) = SUFFIX

\* C22 (as claimed): in every published snapshot no route has as its host a
\* destination key that ends with ".container"; such a destination gives
\* routes to the address of its container or none.
C22_ContainerKeysResolved ==
    \A a \in DOMAIN Snapshot :
        \A i \in 1..Len(Snapshot[a].Routes) : ~EndsWithSuffix(Snapshot[a].Routes[i].Host)

(***************************************************************************)
(* Claims about the transport adapters (checked under SpecServe)           *)
(***************************************************************************)
\* the failure response of the protocol of each adapter
FailureOf(adapter) ==
    CASE adapter \in {"http", "connect", "revhttp"} -> "407"
      [] adapter = "socks" -> "authfail"
      [] adapter = "dns" -> "servfail"
      [] OTHER -> "none"

\* C14 (as claimed): in every adapter a request for which Get returned nil is
\* answered with the failure response of its protocol and is not forwarded
\* to any destination.
C14_AbsentAccountRefused ==
    rq.getNil => (rq.out.kind = FailureOf(rq.adapter) /\ rq.out.kind # "forward")

\* C15 (as claimed): with a non-empty -password, a SOCKS username/password
\* authentication that presents another password is rejected and the
\* connection is not authenticated.
C15_SOCKSWrongPasswordRejected ==
    (/\ rq.adapter = "socks"
     /\ rq.method = "userpass"
     /\ rq.password # <<>>
     /\ rq.pass # rq.password)
        => (rq.stage = "done" /\ rq.out.kind = "authfail")

\* a query of the DNS adapter that reached ReplaceHost, and what it asked for
DNSAnswered == rq.adapter = "dns" /\ rq.stage = "done"
DNSWellFormed == ~rq.getNil /\ rq.host # NoQuestion /\ rq.host # <<>>
DNSRoutes == Snapshot[rq.account].Routes
QueriedName == SubSeq(rq.host, 1, Len(rq.host) - 1)

====
